---- MODULE Spec2Model ----
(***************************************************************************)
(* A model of r7kamura/router (router.go): the pattern compiler, Route and *)
(* Router.  Strings are sequences of one-character strings.  A compiled    *)
(* regexp is kept as its source text, a sequence of atoms, and is          *)
(* interpreted by FindStringSubmatch below the way Go's regexp package     *)
(* interprets the sources compilePattern can produce over the alphabet     *)
(* used here.                                                              *)
(***************************************************************************)
EXTENDS Integers, Sequences, FiniteSets, TLC

VARIABLES
    Routes,           \* router -> (method -> slice of *Route), Router.Routes
    NotFoundHandler,  \* router -> fallback handler, Router.NotFoundHandler
    host,             \* router -> host restriction, Router.host
    last,             \* the most recent sequential ServeHTTP call and what it did
    inflight,         \* the ServeHTTP calls running concurrently, each with its position
    route,            \* a Route built by NewRoute (pattern-level runs)
    probe             \* the result of Match / extractParams on that Route

vars == <<Routes, NotFoundHandler, host, last, inflight, route, probe>>

\* ---------------------------------------------------------------- bounds

MaxPatSegs == 3
MaxPathSegs == 3
MaxRoutes == 2
MaxSubRoutes == 1
MaxConcRoutes == 4
MaxInflight == 2

\* ---------------------------------------------------------------- strings

\* Characters in byte order; their position is their rank for sorting.
ByteOrder == <<"#", ".", "/", "1", "8", ":", "[", "]", "a", "b", "c", "e", "x">>

Rank(c) == CHOOSE i \in 1..Len(ByteOrder) : ByteOrder[i] = c

RECURSIVE StrLess(_, _)
StrLess(s, t) ==
    IF t = <<>> THEN FALSE
    ELSE IF s = <<>> THEN TRUE
    ELSE IF Head(s) = Head(t) THEN StrLess(Tail(s), Tail(t))
    ELSE Rank(Head(s)) < Rank(Head(t))

\* strings.Split(s, sep) for a one-character separator: empty pieces are kept.
RECURSIVE Split(_, _)
Split(s, sep) ==
    IF \A i \in 1..Len(s) : s[i] # sep THEN <<s>>
    ELSE LET i == CHOOSE k \in 1..Len(s) :
                      s[k] = sep /\ \A j \in 1..(k - 1) : s[j] # sep
         IN  <<SubSeq(s, 1, i - 1)>> \o Split(SubSeq(s, i + 1, Len(s)), sep)

\* strings.Join(parts, sep), sep given as a string (sequence of atoms).
RECURSIVE Join(_, _)
Join(parts, sep) ==
    IF parts = <<>> THEN <<>>
    ELSE IF Len(parts) = 1 THEN parts[1]
    ELSE parts[1] \o sep \o Join(Tail(parts), sep)

\* ---------------------------------------------------------------- regexp

\* \w of the alphabet.
WordChars == {"a", "b", "c", "e", "x", "1", "8"}

\* The replacement text of compilePattern, one atom of a regexp source.
Capture == "([^#?/]+)"

\* The separator compilePattern joins the segments with, one atom.
EscSlash == "\\/"

\* Characters the capture class [^#?/] rejects.
CaptureStop == {"#", "?", "/"}

\* End of the longest run of word characters of seg that starts at i.
RECURSIVE WordRunEnd(_, _)
WordRunEnd(seg, i) ==
    IF i + 1 <= Len(seg) /\ seg[i + 1] \in WordChars THEN WordRunEnd(seg, i + 1)
    ELSE i

\* placeholderMatcher `:(\w+)` matches in seg at position i.
PlaceholderAt(seg, i) ==
    /\ i + 1 <= Len(seg)
    /\ seg[i] = ":"
    /\ seg[i + 1] \in WordChars

\* placeholderMatcher.FindStringSubmatch(segment): found is FALSE for nil; else
\* name is the submatch of the leftmost match.
placeholderFind(seg) ==
    IF \A i \in 1..Len(seg) : ~PlaceholderAt(seg, i) THEN [found |-> FALSE, name |-> <<>>]
    ELSE LET i == CHOOSE k \in 1..Len(seg) :
                      PlaceholderAt(seg, k) /\ \A j \in 1..(k - 1) : ~PlaceholderAt(seg, j)
         IN  [found |-> TRUE, name |-> SubSeq(seg, i + 1, WordRunEnd(seg, i + 1))]

\* placeholderMatcher.ReplaceAllString(segment, "([^#?/]+)"): every match,
\* left to right, is replaced; the text between matches is kept.
RECURSIVE placeholderReplaceAll(_)
placeholderReplaceAll(seg) ==
    IF seg = <<>> THEN <<>>
    ELSE IF PlaceholderAt(seg, 1)
         THEN <<Capture>> \o placeholderReplaceAll(SubSeq(seg, WordRunEnd(seg, 2) + 1, Len(seg)))
         ELSE <<Head(seg)>> \o placeholderReplaceAll(Tail(seg))

\* One atom of a regexp source against one character of the input.
AtomAccepts(atom, c) ==
    IF atom = "." THEN TRUE
    ELSE IF atom = EscSlash THEN c = "/"
    ELSE atom = c

\* Longest run of characters from position i that the capture class accepts.
RECURSIVE ClassRun(_, _)
ClassRun(s, i) ==
    IF i <= Len(s) /\ s[i] \notin CaptureStop THEN 1 + ClassRun(s, i + 1) ELSE 0

NoMatch == [ok |-> FALSE, subs |-> <<>>]

\* Matching of the atoms re[ri..] against s[si..], to the end of s (the
\* source ends with $).  ok tells whether they match, subs are the captured
\* substrings in group order.  A capture group is greedy: the longest run is
\* tried first.
RECURSIVE MatchHere(_, _, _, _), TryCapture(_, _, _, _, _)
MatchHere(re, ri, s, si) ==
    IF ri > Len(re) THEN (IF si > Len(s) THEN [ok |-> TRUE, subs |-> <<>>] ELSE NoMatch)
    ELSE IF re[ri] = Capture THEN TryCapture(re, ri, s, si, ClassRun(s, si))
    ELSE IF si <= Len(s) /\ AtomAccepts(re[ri], s[si]) THEN MatchHere(re, ri + 1, s, si + 1)
    ELSE NoMatch

TryCapture(re, ri, s, si, n) ==
    IF n < 1 THEN NoMatch
    ELSE LET rest == MatchHere(re, ri + 1, s, si + n)
         IN  IF rest.ok THEN [ok |-> TRUE, subs |-> <<SubSeq(s, si, si + n - 1)>> \o rest.subs]
             ELSE TryCapture(re, ri, s, si, n - 1)

\* Regexp.FindStringSubmatch(s) without its element 0, for a source that is
\* either empty (anythingMatcher) or ^...$ : ok is FALSE for nil.
FindStringSubmatch(re, s) ==
    IF re = <<>> THEN [ok |-> TRUE, subs |-> <<>>]
    ELSE MatchHere(SubSeq(re, 2, Len(re) - 1), 1, s, 1)

\* Regexp.MatchString(s).
MatchString(re, s) == FindStringSubmatch(re, s).ok

\* Regexp.NumSubexp().
NumSubexp(re) == Cardinality({i \in 1..Len(re) : re[i] = Capture})

\* ---------------------------------------------------------------- Route

\* compilePattern(pattern): the regexp source ^seg\/seg...$ and the keys.
\* A segment in which placeholderMatcher finds a match contributes the name
\* of its leftmost match to keys and has all its matches replaced; any other
\* segment is copied into the source as it is.
RECURSIVE compileSegments(_)
compileSegments(segs) ==
    IF segs = <<>> THEN [segments |-> <<>>, keys |-> <<>>]
    ELSE LET f == placeholderFind(Head(segs))
             rest == compileSegments(Tail(segs))
         IN  IF f.found
             THEN [segments |-> <<placeholderReplaceAll(Head(segs))>> \o rest.segments,
                   keys |-> <<f.name>> \o rest.keys]
             ELSE [segments |-> <<Head(segs)>> \o rest.segments, keys |-> rest.keys]

compilePattern(pattern) ==
    LET c == compileSegments(Split(pattern, "/"))
    IN  [Pattern |-> <<"^">> \o Join(c.segments, <<EscSlash>>) \o <<"$">>, Keys |-> c.keys]

\* The source of anythingMatcher, regexp.MustCompile("").
anythingMatcher == <<>>

\* NewRoute(pattern, handler).
NewRoute(pattern, handler) ==
    LET c == compilePattern(pattern)
    IN  [Pattern |-> c.Pattern, Keys |-> c.Keys, Handler |-> handler]

\* NewEmptyRoute(handler).
NewEmptyRoute(handler) == [Pattern |-> anythingMatcher, Keys |-> <<>>, Handler |-> handler]

\* Route.Match(path).
RouteMatch(r, path) == MatchString(r.Pattern, path)

\* url.Values: a function from its keys to sequences of values.
EmptyValues == [k \in {} |-> <<>>]

ValuesGet(v, k) == IF k \in DOMAIN v THEN v[k] ELSE <<>>

\* params[key] = append(params[key], values...)
ValuesAdd(v, k, vals) ==
    [x \in DOMAIN v \cup {k} |-> IF x = k THEN ValuesGet(v, k) \o vals ELSE v[x]]

\* Route.extractParams(path): the loop over the submatches.  Keys[i] beyond
\* the end of Keys is an index out of range: panicked.
RECURSIVE extractLoop(_, _, _, _)
extractLoop(keys, subs, i, params) ==
    IF i > Len(subs) THEN [panicked |-> FALSE, params |-> params]
    ELSE IF i > Len(keys) THEN [panicked |-> TRUE, params |-> params]
    ELSE extractLoop(keys, subs, i + 1, ValuesAdd(params, keys[i], <<subs[i]>>))

\* Slicing the nil result of a failed FindStringSubmatch with [1:] panics too.
extractParams(r, path) ==
    LET m == FindStringSubmatch(r.Pattern, path)
    IN  IF ~m.ok THEN [panicked |-> TRUE, params |-> EmptyValues]
        ELSE extractLoop(r.Keys, m.subs, 1, EmptyValues)

\* ---------------------------------------------------------------- pattern-level runs

SeqsUpTo(S, n) == UNION {[1..k -> S] : k \in 1..n}

\* Segments patterns are built from: empty, literals (one of them a regexp
\* metacharacter), a bare colon, placeholders, two placeholders in one segment.
PatSegPool ==
    {<<>>, <<"a">>, <<".">>, <<":">>, <<":", "a">>, <<":", "b">>, <<":", "a", ":", "b">>}

\* Segments paths are built from.
PathSegPool == {<<>>, <<"a">>, <<"b">>, <<"a", "b">>, <<"#">>, <<":">>}

PatternPool == {Join(segs, <<"/">>) : segs \in SeqsUpTo(PatSegPool, MaxPatSegs)}

PathPool == {Join(segs, <<"/">>) : segs \in SeqsUpTo(PathSegPool, MaxPathSegs)}

\* The zero *Route.
NilRoute == [Pattern |-> <<>>, Keys |-> <<>>, Handler |-> [kind |-> "nil", id |-> 0]]

NoRoute == [built |-> FALSE, pattern |-> <<>>, r |-> NilRoute]

NoExtract == [panicked |-> FALSE, params |-> EmptyValues]

NoProbe == [done |-> FALSE, path |-> <<>>, matched |-> FALSE,
            extracted |-> FALSE, result |-> NoExtract]

\* The handler TestRouteMatch builds its routes with.
emptyHandler == [kind |-> "handler", id |-> 0]

\* NewRoute(pattern, emptyHandler), as TestRouteMatch calls it.
NewRouteCall(pattern) ==
    /\ ~route.built
    /\ route' = [built |-> TRUE, pattern |-> pattern, r |-> NewRoute(pattern, emptyHandler)]
    /\ UNCHANGED <<Routes, NotFoundHandler, host, last, inflight, probe>>

\* route.Match(path).
MatchCall(path) ==
    /\ route.built
    /\ ~probe.done
    /\ probe' = [NoProbe EXCEPT !.done = TRUE, !.path = path,
                                !.matched = RouteMatch(route.r, path)]
    /\ UNCHANGED <<Routes, NotFoundHandler, host, last, inflight, route>>

\* route.extractParams(path), called as Route.ServeHTTP calls it: after Match
\* returned true for the same path.
ExtractParamsCall ==
    /\ probe.done
    /\ probe.matched
    /\ ~probe.extracted
    /\ probe' = [probe EXCEPT !.extracted = TRUE,
                              !.result = extractParams(route.r, probe.path)]
    /\ UNCHANGED <<Routes, NotFoundHandler, host, last, inflight, route>>

\* ---------------------------------------------------------------- Router

\* Router 1 is the router requests are sent to; router 2 is a second Router
\* that can be made router 1's NotFoundHandler.
RouterIds == {1, 2}

\* Keys of Router.Routes: what Get, Post and Any pass to AppendRoute.
Buckets == {"GET", "POST", "ANY"}

\* A Go slice of *Route: its backing array (as long as its capacity) and its
\* length.  The nil slice of a missing map key has no array.
NilSlice == [arr |-> <<>>, len |-> 0]

SliceElems(sl) == SubSeq(sl.arr, 1, sl.len)

\* append(slice, x): in place while the capacity lasts, else into a new
\* array of doubled capacity whose spare slots are zero.
GoAppend(sl, x) ==
    IF sl.len < Len(sl.arr)
    THEN [arr |-> [sl.arr EXCEPT ![sl.len + 1] = x], len |-> sl.len + 1]
    ELSE LET newcap == IF Len(sl.arr) = 0 THEN 1 ELSE Len(sl.arr) + Len(sl.arr)
         IN  [arr |-> SliceElems(sl) \o <<x>> \o [i \in 1..(newcap - sl.len - 1) |-> NilRoute],
              len |-> sl.len + 1]

\* The backing array of slice after append(slice, more...): when more is not
\* empty and fits the spare capacity it is written behind the slice's
\* elements; otherwise the array is left alone (the result is slice itself,
\* or a new array).
AppendAllArray(sl, more) ==
    IF Len(more) > 0 /\ sl.len + Len(more) <= Len(sl.arr)
    THEN [i \in 1..Len(sl.arr) |->
              IF i > sl.len /\ i <= sl.len + Len(more) THEN more[i - sl.len] ELSE sl.arr[i]]
    ELSE sl.arr

\* The handlers a Router can be given as NotFoundHandler.
DefaultNotFound == [kind |-> "notFoundHandler", id |-> 0]
CustomNotFound == [kind |-> "custom", id |-> 0]
RouterHandler(r) == [kind |-> "router", id |-> r]
RouteHandler(r, n) == [kind |-> "handler", id |-> 10 * r + n]

\* The handler the next registration on router r registers: handlers are
\* numbered in registration order within their router.
NextHandler(r) ==
    RouteHandler(r, 1 + Routes[r]["GET"].len + Routes[r]["POST"].len + Routes[r]["ANY"].len)

\* strings.Split(host, ":")[0] == router.host, or no restriction.
MatchHost(r, h) == host[r] = <<>> \/ host[r] = Split(h, ":")[1]

\* Router.Match(request).
RouterMatch(r, req) == MatchHost(r, req.Host)

\* The slice the loop of Router.ServeHTTP ranges over.
Candidates(r, method) == SliceElems(Routes[r][method]) \o SliceElems(Routes[r]["ANY"])

\* Index of the first candidate whose Match is true, 0 when there is none.
FirstMatch(cands, path) ==
    IF \A i \in 1..Len(cands) : ~RouteMatch(cands[i], path) THEN 0
    ELSE CHOOSE i \in 1..Len(cands) :
             RouteMatch(cands[i], path) /\ \A j \in 1..(i - 1) : ~RouteMatch(cands[j], path)

\* url.ParseQuery on a query of well-formed key=value pairs, left to right.
RECURSIVE ParseQuery(_)
ParseQuery(raw) ==
    IF raw = <<>> THEN EmptyValues
    ELSE LET init == ParseQuery(SubSeq(raw, 1, Len(raw) - 1))
             kv == raw[Len(raw)]
         IN  ValuesAdd(init, kv[1], <<kv[2]>>)

\* Values.Encode(): the keys in sorted order, each with its values in order.
RECURSIVE Encode(_)
Encode(v) ==
    IF DOMAIN v = {} THEN <<>>
    ELSE LET k == CHOOSE x \in DOMAIN v : \A y \in DOMAIN v \ {x} : StrLess(x, y)
         IN  [i \in 1..Len(v[k]) |-> <<k, v[k][i]>>] \o Encode([x \in DOMAIN v \ {k} |-> v[x]])

\* The loop of Route.ServeHTTP as it would be with params[key] = values:
\* the extracted values replace those the query has under the key.
MergeParamsReplacing(params, extracted) ==
    [x \in DOMAIN params \cup DOMAIN extracted |->
        IF x \in DOMAIN extracted THEN extracted[x] ELSE params[x]]

\* The loop of Route.ServeHTTP: every extracted key's values are appended
\* to the values the query has under that key.
RECURSIVE MergeParams(_, _)
MergeParams(params, extracted) ==
    IF DOMAIN extracted = {} THEN params
    ELSE LET k == CHOOSE x \in DOMAIN extracted : TRUE
         IN  MergeParams(ValuesAdd(params, k, extracted[k]),
                         [x \in DOMAIN extracted \ {k} |-> extracted[x]])

\* What one ServeHTTP call did: the handlers invoked, in order, each with the
\* request it was given, and whether the call panicked.
Call(by, via, handler, req) == [by |-> by, via |-> via, handler |-> handler, req |-> req]

\* Route.ServeHTTP(writer, request), called by router `by`.
RouteServeHTTP(rt, by, req) ==
    LET ex == extractParams(rt, req.Path)
        merged == MergeParams(ParseQuery(req.RawQuery), ex.params)
    IN  IF ex.panicked THEN [calls |-> <<>>, panicked |-> TRUE]
        ELSE [calls |-> <<Call(by, "route", rt.Handler, [req EXCEPT !.RawQuery = Encode(merged)])>>,
              panicked |-> FALSE]

\* Router.ServeHTTP(writer, request) from the loop on: matched is what
\* router.Match(request) returned and cands the slice the append built.
RECURSIVE Dispatch(_, _, _, _), RouterServeHTTP(_, _)

\* Dispatch as it would be if the loop ran whatever router.Match returned.
DispatchIgnoringHost(r, req, matched, cands) ==
    LET sel == FirstMatch(cands, req.Path)
        fb == NotFoundHandler[r]
    IN  IF sel # 0 THEN RouteServeHTTP(cands[sel], r, req)
        ELSE IF fb.kind = "router"
             THEN LET sub == RouterServeHTTP(fb.id, req)
                  IN  [calls |-> <<Call(r, "fallback", fb, req)>> \o sub.calls,
                       panicked |-> sub.panicked]
             ELSE [calls |-> <<Call(r, "fallback", fb, req)>>, panicked |-> FALSE]

Dispatch(r, req, matched, cands) ==
    LET sel == IF matched THEN FirstMatch(cands, req.Path) ELSE 0
        fb == NotFoundHandler[r]
    IN  IF sel # 0 THEN RouteServeHTTP(cands[sel], r, req)
        ELSE IF fb.kind = "router"
             THEN LET sub == RouterServeHTTP(fb.id, req)
                  IN  [calls |-> <<Call(r, "fallback", fb, req)>> \o sub.calls,
                       panicked |-> sub.panicked]
             ELSE [calls |-> <<Call(r, "fallback", fb, req)>>, panicked |-> FALSE]

\* Router.ServeHTTP(writer, request).
RouterServeHTTP(r, req) ==
    Dispatch(r, req, RouterMatch(r, req), Candidates(r, req.Method))

\* The routers whose ServeHTTP runs when router r is given req.
RECURSIVE Visited(_, _)
Visited(r, req) ==
    LET sel == IF RouterMatch(r, req) THEN FirstMatch(Candidates(r, req.Method), req.Path) ELSE 0
        fb == NotFoundHandler[r]
    IN  IF sel = 0 /\ fb.kind = "router" THEN {r} \cup Visited(fb.id, req) ELSE {r}

\* Router.Routes of router r after the append of Router.ServeHTTP for method.
RoutesAfterAppend(r, method) ==
    [Routes[r] EXCEPT ![method].arr =
        AppendAllArray(Routes[r][method], SliceElems(Routes[r]["ANY"]))]

\* ---------------------------------------------------------------- sequential runs

\* Patterns and buckets the registration calls on each router are given.
RouterPatterns(r) ==
    IF r = 1
    THEN {<<"/", "a">>, <<"/", ":", "a">>, <<"/", ":", "a", ":", "b">>}
    ELSE {<<"/", ":", "a">>}

RouterBuckets(r) == IF r = 1 THEN {"GET", "ANY"} ELSE {"GET"}

RouteLimit(r) == IF r = 1 THEN MaxRoutes ELSE MaxSubRoutes

RouteCount(r) == Routes[r]["GET"].len + Routes[r]["POST"].len + Routes[r]["ANY"].len

\* Host restrictions given to Router.Host, and the hosts requests target.
HostPool == {<<"e">>, <<"[", ":", ":", "]">>}

RequestHosts ==
    {<<>>, <<"e">>, <<"e", ":", "8">>, <<"x">>,
     <<"[", ":", ":", "]">>, <<"[", ":", ":", "]", ":", "8">>}

RequestPaths == {<<"/">>, <<"/", "a">>, <<"/", "a", "b">>, <<"/", ":">>}

\* Queries: none, and b=c&a=c&a=b.
RequestQueries ==
    {<<>>, << <<(<<"b">>), (<<"c">>)>>, <<(<<"a">>), (<<"c">>)>>, <<(<<"a">>), (<<"b">>)>> >>}

Request(m, h, p, q) == [Method |-> m, Host |-> h, Path |-> p, RawQuery |-> q]

Requests ==
    {Request(m, <<>>, p, q) : m \in {"GET", "POST"}, p \in RequestPaths, q \in RequestQueries}
    \cup {Request("GET", h, <<"/", "a">>, <<>>) : h \in RequestHosts}

NoLast == [served |-> FALSE, req |-> Request("GET", <<>>, <<>>, <<>>),
           calls |-> <<>>, panicked |-> FALSE]

\* Router.AppendRoute(method, pattern, handler), which Get, Post, Put, Delete
\* and Any call with their method.
AppendRoute(r, method, pattern) ==
    /\ Routes' = [Routes EXCEPT ![r][method] = GoAppend(@, NewRoute(pattern, NextHandler(r)))]
    /\ last' = NoLast
    /\ UNCHANGED <<NotFoundHandler, host, inflight, route, probe>>

\* Router.Handle(handler).
Handle(r) ==
    /\ Routes' = [Routes EXCEPT ![r]["ANY"] = GoAppend(@, NewEmptyRoute(NextHandler(r)))]
    /\ last' = NoLast
    /\ UNCHANGED <<NotFoundHandler, host, inflight, route, probe>>

\* Router.Host(host).
Host(r, h) ==
    /\ host[r] # h
    /\ host' = [host EXCEPT ![r] = h]
    /\ last' = NoLast
    /\ UNCHANGED <<Routes, NotFoundHandler, inflight, route, probe>>

\* router.NotFoundHandler = handler
SetNotFoundHandler(r, h) ==
    /\ NotFoundHandler[r] # h
    /\ NotFoundHandler' = [NotFoundHandler EXCEPT ![r] = h]
    /\ last' = NoLast
    /\ UNCHANGED <<Routes, host, inflight, route, probe>>

\* One whole call of router 1's ServeHTTP with req: what it invoked, and the
\* slots its append (and that of each router it fell back to) wrote.
ServeHTTP(req) ==
    /\ ~last.served
    /\ LET out == RouterServeHTTP(1, req)
       IN  last' = [served |-> TRUE, req |-> req, calls |-> out.calls, panicked |-> out.panicked]
    /\ Routes' = [r \in RouterIds |->
                     IF r \in Visited(1, req) /\ RouterMatch(r, req)
                     THEN RoutesAfterAppend(r, req.Method) ELSE Routes[r]]
    /\ UNCHANGED <<NotFoundHandler, host, inflight, route, probe>>

\* The call returns to its caller; the router is ready for the next one.
Return ==
    /\ last.served
    /\ last' = NoLast
    /\ UNCHANGED <<Routes, NotFoundHandler, host, inflight, route, probe>>

\* NewRouter() for both routers.
Init ==
    /\ Routes = [r \in RouterIds |-> [m \in Buckets |-> NilSlice]]
    /\ NotFoundHandler = [r \in RouterIds |-> DefaultNotFound]
    /\ host = [r \in RouterIds |-> <<>>]
    /\ last = NoLast
    /\ inflight = <<>>
    /\ route = NoRoute
    /\ probe = NoProbe

Next ==
    \/ \E r \in RouterIds : \E m \in RouterBuckets(r), p \in RouterPatterns(r) :
           RouteCount(r) < RouteLimit(r) /\ AppendRoute(r, m, p)
    \/ \E r \in RouterIds : RouteCount(r) < RouteLimit(r) /\ Handle(r)
    \/ \E h \in HostPool : Host(1, h)
    \/ \E h \in {CustomNotFound, RouterHandler(2)} : SetNotFoundHandler(1, h)
    \/ \E req \in Requests : ServeHTTP(req)
    \/ Return

Spec == Init /\ [][Next]_vars

\* Pattern-level runs: one NewRoute, then Match and extractParams on a path.
NextRoute ==
    \/ \E p \in PatternPool : NewRouteCall(p)
    \/ \E p \in PathPool : MatchCall(p)
    \/ ExtractParamsCall

SpecRoute == Init /\ [][NextRoute]_vars

\* ---------------------------------------------------------------- concurrent runs

\* Registration on router 1 completes, then up to MaxInflight goroutines of
\* the transport run router 1's ServeHTTP at once, each with its own request.
ConcPatterns == {<<"/", "a">>, <<"/", ":">>, <<"/", ":", "a", ":", "b">>}

ConcRequests ==
    {Request(m, <<>>, p, <<>>) : m \in {"GET", "POST"}, p \in {<<"/", "a">>, <<"/", "a", "b">>}}

Entered(req) ==
    [req |-> req, pc |-> "append", matched |-> FALSE, cands |-> <<>>,
     calls |-> <<>>, panicked |-> FALSE]

\* A goroutine enters Router.ServeHTTP with its request.
Begin(req) ==
    /\ Len(inflight) < MaxInflight
    /\ inflight' = Append(inflight, Entered(req))
    /\ UNCHANGED <<Routes, NotFoundHandler, host, last, route, probe>>

\* Goroutine i evaluates router.Match(request) and, when it is true, the
\* range expression append(router.Routes[request.Method], router.Routes["ANY"]...).
StepAppend(i) ==
    /\ inflight[i].pc = "append"
    /\ LET req == inflight[i].req
           matched == RouterMatch(1, req)
       IN  /\ inflight' = [inflight EXCEPT ![i].pc = "range", ![i].matched = matched,
                               ![i].cands = IF matched THEN Candidates(1, req.Method) ELSE <<>>]
           /\ Routes' = IF matched THEN [Routes EXCEPT ![1] = RoutesAfterAppend(1, req.Method)]
                        ELSE Routes
    /\ UNCHANGED <<NotFoundHandler, host, last, route, probe>>

\* Goroutine i runs the loop and the dispatch or the fallback.  The slots
\* of its slice hold what every goroutine's append writes there, so the
\* elements it reads are those it built the slice from.
StepRange(i) ==
    /\ inflight[i].pc = "range"
    /\ LET out == Dispatch(1, inflight[i].req, inflight[i].matched, inflight[i].cands)
       IN  inflight' = [inflight EXCEPT ![i].pc = "done", ![i].calls = out.calls,
                                        ![i].panicked = out.panicked]
    /\ UNCHANGED <<Routes, NotFoundHandler, host, last, route, probe>>

NextConc ==
    \/ \E m \in {"GET", "ANY"}, p \in ConcPatterns :
           inflight = <<>> /\ RouteCount(1) < MaxConcRoutes /\ AppendRoute(1, m, p)
    \/ \E req \in ConcRequests : Begin(req)
    \/ \E i \in DOMAIN inflight : StepAppend(i)
    \/ \E i \in DOMAIN inflight : StepRange(i)

SpecConc == Init /\ [][NextConc]_vars

\* ---------------------------------------------------------------- claims: Router

\* The routes of router r registered under method / under ANY, in
\* registration order.
MethodRoutes(r, method) == SliceElems(Routes[r][method])

AnyRoutes(r) == SliceElems(Routes[r]["ANY"])

MatchingIn(routes, path) == {i \in 1..Len(routes) : RouteMatch(routes[i], path)}

Earliest(S) == CHOOSE i \in S : \A j \in S : i <= j

RouteCalls(r) == {i \in 1..Len(last.calls) : last.calls[i].by = r /\ last.calls[i].via = "route"}

FallbackCalls(r) ==
    {i \in 1..Len(last.calls) : last.calls[i].by = r /\ last.calls[i].via = "fallback"}

\* C1: when the request passes the host gate and two or more routes
\* registered under its method match its path, ServeHTTP invokes the handler
\* of the one registered first and no other route handler.
C1_FirstRegisteredWins ==
    LET routes == MethodRoutes(1, last.req.Method)
        hits == MatchingIn(routes, last.req.Path)
    IN  (last.served /\ RouterMatch(1, last.req) /\ Cardinality(hits) >= 2)
        => /\ Len(last.calls) = 1
           /\ last.calls[1].via = "route"
           /\ last.calls[1].handler = routes[Earliest(hits)].Handler

\* C2: when the request passes the host gate and some route registered under
\* its exact method matches, the first such route is dispatched and no
\* any-method route handler is invoked; an any-method route is dispatched
\* only when no route under the exact method matches.
C2_MethodTierFirst ==
    LET routes == MethodRoutes(1, last.req.Method)
        hits == MatchingIn(routes, last.req.Path)
        anyHandlers == {AnyRoutes(1)[i].Handler : i \in 1..Len(AnyRoutes(1))}
    IN  (last.served /\ RouterMatch(1, last.req))
        => /\ hits # {} => /\ Len(last.calls) = 1
                           /\ last.calls[1].via = "route"
                           /\ last.calls[1].handler = routes[Earliest(hits)].Handler
                           /\ last.calls[1].handler \notin anyHandlers
           /\ \A i \in RouteCalls(1) : last.calls[i].handler \in anyHandlers => hits = {}

\* The request misses on router r: the host gate fails or no route of the
\* method bucket or the ANY bucket matches the path.
Misses(r, req) ==
    \/ ~RouterMatch(r, req)
    \/ /\ MatchingIn(MethodRoutes(r, req.Method), req.Path) = {}
       /\ MatchingIn(AnyRoutes(r), req.Path) = {}

\* C3: on a miss ServeHTTP invokes the router's NotFoundHandler exactly once,
\* first, with the request unmodified, and invokes none of its route
\* handlers; when the NotFoundHandler is another Router, what follows is
\* what that Router does with the original request.
C3_MissGoesToFallback ==
    (last.served /\ Misses(1, last.req))
    => /\ Len(last.calls) >= 1
       /\ last.calls[1] = Call(1, "fallback", NotFoundHandler[1], last.req)
       /\ FallbackCalls(1) = {1}
       /\ RouteCalls(1) = {}
       /\ IF NotFoundHandler[1].kind = "router"
          THEN /\ Tail(last.calls) = RouterServeHTTP(NotFoundHandler[1].id, last.req).calls
               /\ last.panicked = RouterServeHTTP(NotFoundHandler[1].id, last.req).panicked
               /\ \A i \in 2..Len(last.calls) : last.calls[i].by = NotFoundHandler[1].id
          ELSE Len(last.calls) = 1 /\ ~last.panicked

\* C3 witness: the host gate fails although a route matches the path, the
\* NotFoundHandler is router 2, and router 2 serves the request with a route.
C3_Witness ==
    /\ last.served
    /\ ~RouterMatch(1, last.req)
    /\ MatchingIn(MethodRoutes(1, last.req.Method), last.req.Path) # {}
    /\ NotFoundHandler[1] = RouterHandler(2)
    /\ Len(last.calls) = 2
    /\ last.calls[2].by = 2
    /\ last.calls[2].via = "route"

\* The host of a request target without its port: a bracketed IPv6 literal
\* is kept whole, otherwise what follows the last colon is the port.
StripPort(h) ==
    IF h = <<>> THEN h
    ELSE IF h[Len(h)] = "]" THEN h
    ELSE IF \A i \in 1..Len(h) : h[i] # ":" THEN h
    ELSE SubSeq(h, 1, (CHOOSE i \in 1..Len(h) : h[i] = ":" /\ \A j \in (i + 1)..Len(h) : h[j] # ":") - 1)

\* C4: a router without host restriction passes every request; with
\* restriction h it passes a request iff the request's host without its port
\* equals h, and a request that does not pass goes to the fallback even if a
\* route matches its path.
C4_HostGate ==
    last.served
    => /\ RouterMatch(1, last.req) <=> (host[1] = <<>> \/ StripPort(last.req.Host) = host[1])
       /\ ~(host[1] = <<>> \/ StripPort(last.req.Host) = host[1])
              => (RouteCalls(1) = {} /\ FallbackCalls(1) = {1})
       /\ (host[1] = <<>> \/ StripPort(last.req.Host) = host[1])
              => (Misses(1, last.req) \/ FallbackCalls(1) = {})

\* The route of router r whose handler is h.
RouteOf(r, h) ==
    LET all == MethodRoutes(r, "GET") \o MethodRoutes(r, "POST") \o AnyRoutes(r)
    IN  all[CHOOSE i \in 1..Len(all) : all[i].Handler = h]

\* The substrings the route captures from path under the name k, left to right.
RECURSIVE CapturedUnder(_, _, _)
CapturedUnder(keys, subs, k) ==
    IF subs = <<>> \/ keys = <<>> THEN <<>>
    ELSE (IF Head(keys) = k THEN <<Head(subs)>> ELSE <<>>)
         \o CapturedUnder(Tail(keys), Tail(subs), k)

QueryKeys(raw) == {raw[i][1] : i \in 1..Len(raw)}

\* The values of key k in a query, left to right.
QueryValues(raw, k) ==
    LET F[i \in 0..Len(raw)] ==
            IF i = 0 THEN <<>>
            ELSE IF raw[i][1] = k THEN Append(F[i - 1], raw[i][2]) ELSE F[i - 1]
    IN  F[Len(raw)]

\* C5: the query a route's handler is given holds, under every key, the
\* values the request had under that key, in their order, followed by the
\* values the route extracted from the path under that key; nothing else is
\* added, dropped or replaced, and the rest of the request is as it came.
C5_QueryMerge ==
    last.served
    => \A i \in 1..Len(last.calls) :
           last.calls[i].via = "route"
           => LET c == last.calls[i]
                  rt == RouteOf(c.by, c.handler)
                  subs == FindStringSubmatch(rt.Pattern, last.req.Path).subs
                  named == {rt.Keys[j] : j \in 1..Len(rt.Keys)}
              IN  /\ QueryKeys(c.req.RawQuery) = QueryKeys(last.req.RawQuery) \cup named
                  /\ \A k \in QueryKeys(c.req.RawQuery) :
                         QueryValues(c.req.RawQuery, k)
                             = QueryValues(last.req.RawQuery, k) \o CapturedUnder(rt.Keys, subs, k)
                  /\ c.req = [last.req EXCEPT !.RawQuery = c.req.RawQuery]

\* C5 witness: a route with a placeholder a served a request whose query
\* already had two values under a and one under b.
C5_Witness ==
    /\ last.served
    /\ Len(last.calls) = 1
    /\ last.calls[1].via = "route"
    /\ QueryValues(last.req.RawQuery, <<"a">>) = << <<"c">>, <<"b">> >>
    /\ QueryValues(last.calls[1].req.RawQuery, <<"a">>) = << <<"c">>, <<"b">>, <<"a">> >>
    /\ QueryValues(last.calls[1].req.RawQuery, <<"b">>) = << <<"c">> >>

\* ---------------------------------------------------------------- claims: Route and patterns

\* The placeholders of a pattern: the places where a colon is followed by a
\* word character.
PlaceholderStarts(pattern) == {i \in 1..Len(pattern) : PlaceholderAt(pattern, i)}

\* Their names, left to right.
RECURSIVE PlaceholderNames(_, _)
PlaceholderNames(pattern, i) ==
    IF i > Len(pattern) THEN <<>>
    ELSE IF PlaceholderAt(pattern, i)
         THEN <<SubSeq(pattern, i + 1, WordRunEnd(pattern, i + 1))>>
              \o PlaceholderNames(pattern, WordRunEnd(pattern, i + 1) + 1)
         ELSE PlaceholderNames(pattern, i + 1)

RECURSIVE SumLen(_, _)
SumLen(f, S) ==
    IF S = {} THEN 0
    ELSE LET x == CHOOSE y \in S : TRUE IN Len(f[x]) + SumLen(f, S \ {x})

\* C6: a pattern with k placeholders compiles to k keys and k capturing
\* groups, and on a path the route matches extractParams yields exactly k
\* parameters, the i-th name bound to the i-th captured substring.
C6_KeysMatchGroups ==
    route.built
    => LET k == Cardinality(PlaceholderStarts(route.pattern))
           names == PlaceholderNames(route.pattern, 1)
           subs == FindStringSubmatch(route.r.Pattern, probe.path).subs
       IN  /\ Len(route.r.Keys) = k
           /\ NumSubexp(route.r.Pattern) = k
           /\ route.r.Keys = names
           /\ probe.extracted
                  => /\ ~probe.result.panicked
                     /\ Len(subs) = k
                     /\ SumLen(probe.result.params, DOMAIN probe.result.params) = k
                     /\ \A key \in DOMAIN probe.result.params :
                            probe.result.params[key] = CapturedUnder(names, subs, key)

\* C7: a pattern without placeholders matches exactly the path equal to it.
C7_LiteralPatternExact ==
    (probe.done /\ PlaceholderStarts(route.pattern) = {})
    => (probe.matched <=> probe.path = route.pattern)

\* A segment that is a placeholder: a colon and an identifier.
IsPlaceholderSegment(seg) ==
    /\ Len(seg) >= 2
    /\ seg[1] = ":"
    /\ \A i \in 2..Len(seg) : seg[i] \in WordChars

\* C8: "/:a" matches exactly the paths made of "/" and a non-empty string
\* without "/"; a pattern matches a path only if both have the same number
\* of segments, every literal segment is equal and every placeholder
\* segment is non-empty.
C8_PlaceholderOneSegment ==
    probe.done
    => /\ route.pattern = <<"/", ":", "a">>
              => (probe.matched <=> /\ Len(probe.path) >= 2
                                    /\ probe.path[1] = "/"
                                    /\ \A i \in 2..Len(probe.path) : probe.path[i] # "/")
       /\ probe.matched
              => LET ps == Split(route.pattern, "/")
                     qs == Split(probe.path, "/")
                 IN  /\ Len(ps) = Len(qs)
                     /\ \A i \in 1..Len(ps) :
                            IF IsPlaceholderSegment(ps[i]) THEN qs[i] # <<>> ELSE qs[i] = ps[i]

\* ---------------------------------------------------------------- claims: registration and concurrency

\* The matcher was compiled from a pattern with an empty placeholder
\* identifier: a colon is left in its source.
HasEmptyPlaceholder(rt) == \E i \in 1..Len(rt.Pattern) : rt.Pattern[i] = ":"

\* C9: no registration call adds a Route for a malformed pattern, so the
\* Router holds no Route compiled from one, and no request fails in match or
\* parameter extraction because of a pattern.
C9_MalformedRejected ==
    /\ \A r \in RouterIds, b \in Buckets :
           \A i \in 1..Routes[r][b].len : ~HasEmptyPlaceholder(Routes[r][b].arr[i])
    /\ \A i \in DOMAIN inflight : ~inflight[i].panicked

\* C10: once requests are being served no step of a ServeHTTP call writes
\* the route table (the arrays behind its buckets included), the host
\* restriction or the fallback reference, and every call, however it is
\* interleaved with the others, invokes what it would invoke alone.
C10_DispatchReadOnly ==
    /\ [][inflight # <<>> => (Routes' = Routes /\ host' = host
                                 /\ NotFoundHandler' = NotFoundHandler)]_vars
    /\ [](\A i \in DOMAIN inflight :
              inflight[i].pc = "done"
              => /\ inflight[i].calls = RouterServeHTTP(1, inflight[i].req).calls
                 /\ inflight[i].panicked = RouterServeHTTP(1, inflight[i].req).panicked)

====
